---- MODULE Spec2Model ----
(***************************************************************************)
(* generate_world (src/src/data_processing.rs): the element classifier,    *)
(* the ground-layer sweep and the spawn platform, as a state machine.      *)
(* The world editor (voxel sink), the ground oracle and the feature        *)
(* generators live in other modules of the crate; they are modelled by     *)
(* their contracts.                                                        *)
(***************************************************************************)
EXTENDS Integers, Sequences, FiniteSets, TLC

\* ------------------------------------------------------------------ bounds
MaxElements == 1
MaxTags == 2
MaxScale == 1
MaxRise == 4
MaxGenHeight == 2
MaxProgressElements == 200
MaxProgressScale == 10
MaxDesiredUpdates == 4

\* ------------------------------------------------------- program constants
MIN_Y == -64
SPAWN_Y == -62
SPAWN_MAX == 20
DESIRED_UPDATES == 1500

BEDROCK == "BEDROCK"
DIRT == "DIRT"
GRASS_BLOCK == "GRASS_BLOCK"
SNOW_BLOCK == "SNOW_BLOCK"
STONE == "STONE"

None == "None"

\* ------------------------------------------------------------------- f64
\* The progress percentages are f64. A finite f64 v with v = 0 or
\* 2^-3 <= v < 2^8 is a multiple of 2^-55; it is held exactly as three
\* 21-bit limbs d with v * 2^55 = d[1] * Limb^2 + d[2] * Limb + d[3].
Limb == 2^21

\* The f64 of an integer literal k.0, 0 <= k < 256.
F64(k) == <<k * 2^13, 0, 0>>

\* The literal 0.25.
QUARTER == <<2^11, 0, 0>>

f64_lt(a, b) ==
    \/ a[1] < b[1]
    \/ a[1] = b[1] /\ a[2] < b[2]
    \/ a[1] = b[1] /\ a[2] = b[2] /\ a[3] < b[3]

f64_le(a, b) == a = b \/ f64_lt(a, b)

\* Exact sum and exact difference (a >= b) of the held values.
ExactAdd(a, b) ==
    LET s3 == a[3] + b[3]
        s2 == a[2] + b[2] + (s3 \div Limb)
        s1 == a[1] + b[1] + (s2 \div Limb)
    IN  <<s1, s2 % Limb, s3 % Limb>>

ExactSub(a, b) ==
    LET s3 == a[3] - b[3]
        b3 == IF s3 < 0 THEN 1 ELSE 0
        s2 == a[2] - b[2] - b3
        b2 == IF s2 < 0 THEN 1 ELSE 0
    IN  <<a[1] - b[1] - b2, s2 + b2 * Limb, s3 + b3 * Limb>>

\* The binary exponent k of a value in [2^k, 2^(k+1)), -3 <= k <= 7.
Exponent(a) == CHOOSE k \in -3..7 : a[1] >= 2^(13 + k) /\ a[1] < 2^(14 + k)

\* Round to nearest, ties to even, at 53 significant bits. The exact value
\* is a plus a fraction of the unit 2^-55 that is zero ("zero"), below a
\* half ("below"), a half ("half") or above a half ("above").
RoundNearestEven(a, fraction) ==
    IF a[1] < 2^10 THEN a
    ELSE LET ulp == 2^(Exponent(a) + 3)
             low == a[3] % ulp
             odd == (a[3] \div ulp) % 2 = 1
             up == IF ulp = 1
                   THEN fraction = "above" \/ (fraction = "half" /\ odd)
                   ELSE \/ 2 * low > ulp
                        \/ 2 * low = ulp /\ fraction # "zero"
                        \/ 2 * low = ulp /\ fraction = "zero" /\ odd
             down == <<a[1], a[2], a[3] - low>>
         IN  IF up THEN ExactAdd(down, <<0, 0, ulp>>) ELSE down

\* a + b on f64. (The exact sum is bound as a value before it is rounded.)
f64_add(a, b) ==
    CHOOSE r \in {RoundNearestEven(s, "zero") : s \in {ExactAdd(a, b)}} : TRUE

\* (a - b).abs() on f64.
f64_abs_sub(a, b) ==
    CHOOSE r \in {RoundNearestEven(d, "zero") :
                     d \in {IF f64_lt(a, b) THEN ExactSub(b, a)
                             ELSE ExactSub(a, b)}} : TRUE

\* Long division of k * 2^55 by n: the quotient and what is left of it.
LongDivision(k, n) ==
    LET q1 == (k * 2^13) \div n
        r1 == (k * 2^13) % n
        q2 == (r1 * Limb) \div n
        r2 == (r1 * Limb) % n
        q3 == (r2 * Limb) \div n
        r3 == (r2 * Limb) % n
        fraction == IF r3 = 0 THEN "zero"
                    ELSE IF 2 * r3 < n THEN "below"
                    ELSE IF 2 * r3 = n THEN "half" ELSE "above"
    IN  <<<<q1, q2, q3>>, fraction>>

\* The f64 quotient of two f64 values whose exact ratio is k / n, for
\* integers 0 < k < 256 and 1 <= n < 1024 with 2^-3 <= k / n < 2^8.
f64_div(k, n) ==
    CHOOSE r \in {RoundNearestEven(q[1], q[2]) : q \in {LongDivision(k, n)}} :
        TRUE

VARIABLES
    pc,                \* position in generate_world
    elements_count,    \* elements.len()
    idx,               \* number of elements the loop has taken
    element,           \* the loop variable of the element loop
    called,            \* generators invoked for `element`, in call order
    scale_x, scale_z,  \* scale_factor_x as i32, scale_factor_z as i32
    elevation_enabled, \* ground.elevation_enabled
    fillground,        \* args.fillground
    winter,            \* args.winter
    ground,            \* the ground oracle built by Ground::new
    ground_levels,     \* the pre-calculated levels (elevation mode)
    world,             \* the editor's blocks: cell <<x, y, z>> -> block
    world0,            \* history: `world` when the element loop ended
    gx, gz,            \* the column the ground sweep takes next
    log,               \* requests issued to the editor by generate_world
    frac_x, frac_z,    \* the fractional parts of scale_factor_x and
                       \* scale_factor_z, in halves: scale_factor_x is
                       \* scale_x + frac_x / 2
    terrain,           \* args.terrain
    desired_updates,   \* desired_updates
    persist,           \* what editor.save() will do: "ok", "fails", "panics"
    emitted,           \* emit_gui_progress_update calls, in call order
    current_progress_prcs,
    last_emitted_progress,
    gui_progress_grnd,
    block_counter,
    ground_pb,         \* sum of the amounts passed to ground_pb.inc
    calls,             \* history: the calls of a generator ("generator")
                       \* and of save ("editor.save"), each with the
                       \* length of `log` when it was made
    result             \* "running", then what generate_world ends with

vars == <<pc, elements_count, idx, element, called, scale_x, scale_z,
          elevation_enabled, fillground, winter, ground, ground_levels,
          world,
          world0, gx, gz, log, frac_x, frac_z, terrain, desired_updates,
          persist, emitted,
          current_progress_prcs, last_emitted_progress, gui_progress_grnd,
          block_counter, ground_pb, calls, result>>

args_vars == <<frac_x, frac_z, terrain, desired_updates, persist>>
gui_vars == <<emitted, current_progress_prcs, last_emitted_progress,
              gui_progress_grnd>>
bar_vars == <<block_counter, ground_pb>>

\* ---------------------------------------------------------------- elements
Kinds == {"way", "node", "relation"}

\* Keys read by the predicate chain of each element kind.
ChainKeys(kind) ==
    CASE kind = "way" ->
           {"building", "building:part", "highway", "landuse", "natural",
            "amenity", "leisure", "barrier", "waterway", "bridge", "railway",
            "aeroway", "area:aeroway", "service"}
      [] kind = "node" ->
           {"door", "entrance", "natural", "amenity", "barrier", "highway",
            "tourism"}
      [] kind = "relation" ->
           {"building", "building:part", "water", "leisure"}

\* Values a key is given in the enumerated inputs.
TagValues(key) ==
    CASE key = "natural" -> {"tree", "wood"}
      [] key = "leisure" -> {"park", "pitch"}
      [] key = "service" -> {"siding", "alley"}
      [] OTHER -> {"yes"}

TagPairs(kind) == {<<k, v>> \in ChainKeys(kind) \X {"tree", "wood", "park", "pitch", "siding", "alley", "yes"} :
                      v \in TagValues(k)}

\* A tag map is a set of <<key, value>> pairs with unique keys.
IsTagMap(t) == \A p \in t, q \in t : p[1] = q[1] => p = q

RECURSIVE SubsetsUpTo(_, _)
SubsetsUpTo(S, n) ==
    IF n = 0 THEN {{}}
    ELSE LET smaller == SubsetsUpTo(S, n - 1)
         IN  smaller \cup {t \cup {p} : t \in smaller, p \in S}

TagMaps(kind) == {t \in SubsetsUpTo(TagPairs(kind), MaxTags) : IsTagMap(t)}

contains_key(tags, key) == \E p \in tags : p[1] = key

get(tags, key) ==
    IF contains_key(tags, key) THEN (CHOOSE p \in tags : p[1] = key)[2] ELSE None

NoElement == [kind |-> None, tags |-> {}, cells |-> {}]

\* Option<&[Block]>: no filter, or a list of blocks.
NoFilter == <<>>
Some(blocks) == <<blocks>>

\* ---------------------------------------------------------- voxel sink
\* WorldEditor is not part of src/: modelled from the sink contract.
EmptyWorld == [c \in {} |-> STONE]

block_at(w, x, y, z) == <<x, y, z>> \in DOMAIN w

\* Whether a write of a cell may replace what the cell holds: a free cell is
\* always written; an occupied one only through a whitelist that names its
\* block or a blacklist (exclusion filter) that does not.
should_insert(w, c, whitelist, blacklist) ==
    IF c \in DOMAIN w
    THEN IF whitelist # NoFilter THEN w[c] \in whitelist[1]
         ELSE IF blacklist # NoFilter THEN w[c] \notin blacklist[1]
         ELSE FALSE
    ELSE TRUE

set_block(w, block, x, y, z, whitelist, blacklist) ==
    LET c == <<x, y, z>>
    IN  IF should_insert(w, c, whitelist, blacklist)
        THEN [d \in DOMAIN w \cup {c} |-> IF d = c THEN block ELSE w[d]]
        ELSE w

Min(a, b) == IF a < b THEN a ELSE b
Max(a, b) == IF a < b THEN b ELSE a

\* The axis-aligned range between two corners, every cell written as by
\* set_block.
fill_blocks(w, block, x1, y1, z1, x2, y2, z2, whitelist, blacklist) ==
    LET range == {c \in (Min(x1, x2)..Max(x1, x2)) \X (Min(y1, y2)..Max(y1, y2))
                          \X (Min(z1, z2)..Max(z1, z2)) : TRUE}
    IN  [d \in DOMAIN w \cup range |->
            IF d \in range /\ should_insert(w, d, whitelist, blacklist)
            THEN block ELSE w[d]]

\* A feature generator is opaque; it may write to the sink.  The blocks it
\* writes are carried by the element (its geometry) and land on free cells.
generate(w, e) ==
    [d \in DOMAIN w \cup {<<g.x, g.y, g.z>> : g \in e.cells} |->
        IF d \in DOMAIN w THEN w[d]
        ELSE (CHOOSE g \in e.cells : <<g.x, g.y, g.z>> = d).block]

\* Requests generate_world issues to the editor, as logged.
SetRequest(line, block, x, y, z, blacklist) ==
    [op |-> "set_block", line |-> line, block |-> block,
     x1 |-> x, y1 |-> y, z1 |-> z, x2 |-> x, y2 |-> y, z2 |-> z,
     blacklist |-> blacklist]

FillRequest(line, block, x1, y1, z1, x2, y2, z2) ==
    [op |-> "fill_blocks", line |-> line, block |-> block,
     x1 |-> x1, y1 |-> y1, z1 |-> z1, x2 |-> x2, y2 |-> y2, z2 |-> z2,
     blacklist |-> NoFilter]

QueryRequest(line, x, y, z) ==
    [op |-> "block_at", line |-> line, block |-> None,
     x1 |-> x, y1 |-> y, z1 |-> z, x2 |-> x, y2 |-> y, z2 |-> z,
     blacklist |-> NoFilter]

\* ------------------------------------------------------------ classifier
\* The way chain without the bridge arm: a bridge falls through to the
\* railway, aeroway and siding arms.
WayGeneratorsNoBridge(tags) ==
    IF contains_key(tags, "building") \/ contains_key(tags, "building:part")
    THEN <<"buildings::generate_buildings">>
    ELSE IF contains_key(tags, "highway") THEN <<"highways::generate_highways">>
    ELSE IF contains_key(tags, "landuse") THEN <<"landuse::generate_landuse">>
    ELSE IF contains_key(tags, "natural") THEN <<"natural::generate_natural">>
    ELSE IF contains_key(tags, "amenity") THEN <<"amenities::generate_amenities">>
    ELSE IF contains_key(tags, "leisure") THEN <<"leisure::generate_leisure">>
    ELSE IF contains_key(tags, "barrier") THEN <<"barriers::generate_barriers">>
    ELSE IF contains_key(tags, "waterway") THEN <<"waterways::generate_waterways">>
    ELSE IF contains_key(tags, "railway") THEN <<"railways::generate_railways">>
    ELSE IF contains_key(tags, "aeroway") \/ contains_key(tags, "area:aeroway")
    THEN <<"highways::generate_aeroway">>
    ELSE IF get(tags, "service") = "siding" THEN <<"highways::generate_siding">>
    ELSE <<>>

\* The way chain with highway tested before building.
WayGeneratorsHighwayFirst(tags) ==
    IF contains_key(tags, "highway") THEN <<"highways::generate_highways">>
    ELSE IF contains_key(tags, "building") \/ contains_key(tags, "building:part")
    THEN <<"buildings::generate_buildings">>
    ELSE IF contains_key(tags, "landuse") THEN <<"landuse::generate_landuse">>
    ELSE IF contains_key(tags, "natural") THEN <<"natural::generate_natural">>
    ELSE IF contains_key(tags, "amenity") THEN <<"amenities::generate_amenities">>
    ELSE IF contains_key(tags, "leisure") THEN <<"leisure::generate_leisure">>
    ELSE IF contains_key(tags, "barrier") THEN <<"barriers::generate_barriers">>
    ELSE IF contains_key(tags, "waterway") THEN <<"waterways::generate_waterways">>
    ELSE IF contains_key(tags, "bridge") THEN <<>>
    ELSE IF contains_key(tags, "railway") THEN <<"railways::generate_railways">>
    ELSE IF contains_key(tags, "aeroway") \/ contains_key(tags, "area:aeroway")
    THEN <<"highways::generate_aeroway">>
    ELSE IF get(tags, "service") = "siding" THEN <<"highways::generate_siding">>
    ELSE <<>>

WayGenerators(tags) ==
    IF contains_key(tags, "building") \/ contains_key(tags, "building:part")
    THEN <<"buildings::generate_buildings">>
    ELSE IF contains_key(tags, "highway") THEN <<"highways::generate_highways">>
    ELSE IF contains_key(tags, "landuse") THEN <<"landuse::generate_landuse">>
    ELSE IF contains_key(tags, "natural") THEN <<"natural::generate_natural">>
    ELSE IF contains_key(tags, "amenity") THEN <<"amenities::generate_amenities">>
    ELSE IF contains_key(tags, "leisure") THEN <<"leisure::generate_leisure">>
    ELSE IF contains_key(tags, "barrier") THEN <<"barriers::generate_barriers">>
    ELSE IF contains_key(tags, "waterway") THEN <<"waterways::generate_waterways">>
    ELSE IF contains_key(tags, "bridge") THEN <<>>
    ELSE IF contains_key(tags, "railway") THEN <<"railways::generate_railways">>
    ELSE IF contains_key(tags, "aeroway") \/ contains_key(tags, "area:aeroway")
    THEN <<"highways::generate_aeroway">>
    ELSE IF get(tags, "service") = "siding" THEN <<"highways::generate_siding">>
    ELSE <<>>

\* The node chain with the natural branch taken for any value of the tag.
NodeGeneratorsAnyNatural(tags) ==
    IF contains_key(tags, "door") \/ contains_key(tags, "entrance")
    THEN <<"doors::generate_doors">>
    ELSE IF contains_key(tags, "natural") THEN <<"natural::generate_natural">>
    ELSE IF contains_key(tags, "amenity") THEN <<"amenities::generate_amenities">>
    ELSE IF contains_key(tags, "barrier") THEN <<"barriers::generate_barriers">>
    ELSE IF contains_key(tags, "highway") THEN <<"highways::generate_highways">>
    ELSE IF contains_key(tags, "tourism") THEN <<"tourisms::generate_tourisms">>
    ELSE <<>>

NodeGenerators(tags) ==
    IF contains_key(tags, "door") \/ contains_key(tags, "entrance")
    THEN <<"doors::generate_doors">>
    ELSE IF contains_key(tags, "natural") /\ get(tags, "natural") = "tree"
    THEN <<"natural::generate_natural">>
    ELSE IF contains_key(tags, "amenity") THEN <<"amenities::generate_amenities">>
    ELSE IF contains_key(tags, "barrier") THEN <<"barriers::generate_barriers">>
    ELSE IF contains_key(tags, "highway") THEN <<"highways::generate_highways">>
    ELSE IF contains_key(tags, "tourism") THEN <<"tourisms::generate_tourisms">>
    ELSE <<>>

\* The relation chain with water tested before building.
RelationGeneratorsWaterFirst(tags) ==
    IF contains_key(tags, "water") THEN <<"water_areas::generate_water_areas">>
    ELSE IF contains_key(tags, "building") \/ contains_key(tags, "building:part")
    THEN <<"buildings::generate_building_from_relation">>
    ELSE IF get(tags, "leisure") = "park"
    THEN <<"leisure::generate_leisure_from_relation">>
    ELSE <<>>

RelationGenerators(tags) ==
    IF contains_key(tags, "building") \/ contains_key(tags, "building:part")
    THEN <<"buildings::generate_building_from_relation">>
    ELSE IF contains_key(tags, "water") THEN <<"water_areas::generate_water_areas">>
    ELSE IF get(tags, "leisure") = "park"
    THEN <<"leisure::generate_leisure_from_relation">>
    ELSE <<>>

\* match element { Way | Node | Relation }
Generators(e) ==
    CASE e.kind = "way" -> WayGenerators(e.tags)
      [] e.kind = "node" -> NodeGenerators(e.tags)
      [] e.kind = "relation" -> RelationGenerators(e.tags)

\* ------------------------------------------------------------ the inputs
\* Elements for the classifier: every tag map of up to MaxTags chain keys,
\* no geometry.
ClassifierElements ==
    {[kind |-> k, tags |-> t, cells |-> {}] :
        <<k, t>> \in UNION {{k} \X TagMaps(k) : k \in Kinds}}

\* Blocks a generator can leave in column (0, 0): stone from the floor up to
\* MaxGenHeight above it, or bedrock on the floor.
GenCells ==
    {[x |-> 0, y |-> y, z |-> 0, block |-> STONE] :
        y \in MIN_Y..(MIN_Y + MaxGenHeight)}
    \cup {[x |-> 0, y |-> MIN_Y, z |-> 0, block |-> BEDROCK]}

Geometries ==
    {g \in SUBSET GenCells : g # {} /\ \A c \in g, d \in g : c.y = d.y => c = d}

\* Elements for the ground layer: a building with some geometry, and an
\* untagged way (no generator) with some geometry.
TerrainElements ==
    {[kind |-> "way", tags |-> {<<"building", "yes">>}, cells |-> g] :
        g \in Geometries}
    \cup {[kind |-> "way", tags |-> {}, cells |-> GenCells]}

\* Target elevations the oracles return: one just above the floor, one
\* above every generated block.
GroundLevels == {MIN_Y + 1, MIN_Y + MaxRise}

\* The ground oracles enumerated: one level on the columns with x + z even,
\* one on the others.
Grounds == [even : GroundLevels, odd : GroundLevels]

\* ground.level(XZPoint::new(x, z))
level(g, x, z) == IF (x + z) % 2 = 0 THEN g.even ELSE g.odd

\* ------------------------------------------------------- progress signals
\* One call emit_gui_progress_update(progress, _) made at source line `line`.
Update(line, progress) == [line |-> line, progress |-> progress]

\* Lines 24 to 29: 10.0 when args.terrain, then 11.0.
FirstUpdates(t) ==
    (IF t THEN <<Update(25, F64(10))>> ELSE <<>>) \o <<Update(29, F64(11))>>

\* let progress_increment_prcs: f64 = 49.0 / elements_count as f64;
\* With no element the quotient is +inf and no iteration reads it.
progress_increment_prcs == f64_div(49, elements_count)

\* let total_blocks: u64 = (scale_factor_x as i32 + 1) as u64 * ...
total_blocks == (scale_x + 1) * (scale_z + 1)

\* The fractional parts a scale factor is given: none, or a half.
Halves == {0, 1}

\* let total_iterations_grnd: f64 = (scale_factor_x + 1.0) * (scale_factor_z + 1.0);
\* in quarters. The factors are multiples of a half, so the f64 sums and the
\* f64 product are exact.
total_iterations_grnd ==
    (2 * scale_x + frac_x + 2) * (2 * scale_z + frac_z + 2)

\* let progress_increment_grnd: f64 = 30.0 / total_iterations_grnd;
\* 30 / (t / 4) = 120 / t.
progress_increment_grnd == f64_div(120, total_iterations_grnd)

\* The emission test with >= in place of >.
exceeds_thresholdInclusive(progress, last) ==
    f64_le(QUARTER, f64_abs_sub(progress, last))

\* (progress - last_emitted_progress).abs() > 0.25
exceeds_threshold(progress, last) ==
    f64_lt(QUARTER, f64_abs_sub(progress, last))

\* let batch_size: u64 = (total_blocks / desired_updates).max(1);
batch_size == Max(total_blocks \div desired_updates, 1)

\* The bar advanced by one at every multiple of batch_size.
ground_pb_incByOne(counter, pos) ==
    IF counter % batch_size = 0 THEN pos + 1 ELSE pos

\* if block_counter % batch_size == 0 { ground_pb.inc(batch_size); }
ground_pb_inc(counter, pos) ==
    IF counter % batch_size = 0 THEN pos + batch_size ELSE pos

\* What editor.save() can do.
PersistOutcomes == {"ok", "fails", "panics"}

\* ------------------------------------------------------------------ Init
Init ==
    /\ pc = "elements"
    /\ elements_count \in 0..MaxElements
    /\ idx = 0
    /\ element = NoElement
    /\ called = <<>>
    /\ scale_x \in 0..MaxScale
    /\ scale_z \in 0..MaxScale
    /\ elevation_enabled \in BOOLEAN
    /\ fillground \in BOOLEAN
    /\ winter \in BOOLEAN
    /\ ground \in Grounds
    /\ ground_levels = <<>>
    /\ world = EmptyWorld
    /\ world0 = EmptyWorld
    /\ gx = 0
    /\ gz = 0
    /\ log = <<>>
    /\ frac_x \in Halves
    /\ frac_z \in Halves
    /\ elements_count = 0 \/ (frac_x = 0 /\ frac_z = 0)
    /\ terrain = elevation_enabled
    /\ desired_updates = DESIRED_UPDATES
    /\ persist = "ok"
    /\ emitted = FirstUpdates(terrain)
    /\ current_progress_prcs = F64(11)
    /\ last_emitted_progress = F64(11)
    /\ gui_progress_grnd = F64(60)
    /\ block_counter = 0
    /\ ground_pb = 0
    /\ calls = <<>>
    /\ result = "running"

\* The classifier's runs: one column, no fill, default surface.
InitClassifier ==
    /\ Init
    /\ scale_x = 0
    /\ scale_z = 0
    /\ frac_x = 0
    /\ frac_z = 0
    /\ fillground = FALSE
    /\ winter = FALSE
    /\ ground.even = ground.odd

\* An element without tags or geometry: it only advances the progress.
ProgressElements == {[kind |-> "way", tags |-> {}, cells |-> {}]}

\* The runs of the progress signals: a long element list on one column, or
\* a large grid without elements, or a small run with any flags, any
\* update count and any outcome of save.
InitProgress ==
    /\ pc = "elements"
    /\ idx = 0
    /\ element = NoElement
    /\ called = <<>>
    /\ fillground = FALSE
    /\ winter = FALSE
    /\ ground = [even |-> MIN_Y + MaxRise, odd |-> MIN_Y + MaxRise]
    /\ ground_levels = <<>>
    /\ world = EmptyWorld
    /\ world0 = EmptyWorld
    /\ gx = 0
    /\ gz = 0
    /\ log = <<>>
    /\ \/ /\ elements_count \in 0..MaxProgressElements
          /\ scale_x = 0
          /\ scale_z = 0
          /\ frac_x = 0
          /\ frac_z = 0
          /\ elevation_enabled = FALSE
          /\ terrain = FALSE
          /\ desired_updates = DESIRED_UPDATES
          /\ persist = "ok"
       \/ /\ elements_count = 0
          /\ scale_x \in 0..MaxProgressScale
          /\ scale_z \in 0..MaxProgressScale
          /\ frac_x \in Halves
          /\ frac_z \in Halves
          /\ elevation_enabled \in BOOLEAN
          /\ terrain = elevation_enabled
          /\ desired_updates = DESIRED_UPDATES
          /\ persist = "ok"
       \/ /\ elements_count \in 0..MaxElements
          /\ scale_x \in 0..(MaxScale + 1)
          /\ scale_z \in 0..(MaxScale + 1)
          /\ frac_x \in Halves
          /\ frac_z \in Halves
          /\ elevation_enabled \in BOOLEAN
          /\ terrain \in BOOLEAN
          /\ desired_updates \in (1..MaxDesiredUpdates) \cup {DESIRED_UPDATES}
          /\ persist \in PersistOutcomes
    /\ emitted = FirstUpdates(terrain)
    /\ current_progress_prcs = F64(11)
    /\ last_emitted_progress = F64(11)
    /\ gui_progress_grnd = F64(60)
    /\ block_counter = 0
    /\ ground_pb = 0
    /\ calls = <<>>
    /\ result = "running"

\* --------------------------------------------------------------- actions
\* One iteration of `for element in &elements`, the generator it calls
\* included.
ProcessElement(universe) ==
    /\ pc = "elements"
    /\ idx < elements_count
    /\ idx' = idx + 1
    /\ \E progress \in {f64_add(current_progress_prcs, progress_increment_prcs)} :
           /\ current_progress_prcs' = progress
           /\ IF exceeds_threshold(progress, last_emitted_progress)
              THEN /\ emitted' = Append(emitted, Update(47, progress))
                   /\ last_emitted_progress' = progress
              ELSE UNCHANGED <<emitted, last_emitted_progress>>
    /\ UNCHANGED <<pc, elements_count, scale_x, scale_z, elevation_enabled,
                   fillground, winter, ground, ground_levels, world0, gx, gz,
                   log, args_vars, gui_progress_grnd, bar_vars, result>>
    /\ \E e \in universe :
          LET generators == Generators(e)
          IN  /\ element' = e
              /\ called' = generators
              /\ world' = IF generators # <<>> THEN generate(world, e) ELSE world
              /\ calls' = IF generators # <<>>
                           THEN Append(calls, [op |-> "generator",
                                               at |-> Len(log)])
                           ELSE calls

\* if args.winter { SNOW_BLOCK } else { GRASS_BLOCK }
groundlayer_block == IF winter THEN SNOW_BLOCK ELSE GRASS_BLOCK

\* The ground phase set up without waiting for the end of the element loop.
FinishElementsNoWait ==
    /\ pc = "elements"
    /\ idx <= elements_count
    /\ element' = NoElement
    /\ called' = <<>>
    /\ world0' = world
    /\ gx' = 0
    /\ gz' = 0
    /\ block_counter' = 0
    /\ emitted' = Append(emitted, Update(129, F64(60)))
    /\ gui_progress_grnd' = F64(60)
    /\ last_emitted_progress' = F64(60)
    /\ IF elevation_enabled
       THEN /\ ground_levels' = [x \in 0..scale_x |-> [z \in 0..scale_z |-> level(ground, x, z)]]
            /\ pc' = "ground_elevation"
       ELSE /\ ground_levels' = ground_levels
            /\ pc' = "ground_flat"
    /\ UNCHANGED <<elements_count, idx, scale_x, scale_z, elevation_enabled,
                   fillground, winter, ground, world, log, args_vars,
                   current_progress_prcs, ground_pb, calls, result>>

\* The loop is left; the ground phase is set up and, with elevation, the
\* levels of all columns are pre-calculated.
FinishElements ==
    /\ pc = "elements"
    /\ idx = elements_count
    /\ element' = NoElement
    /\ called' = <<>>
    /\ world0' = world
    /\ gx' = 0
    /\ gz' = 0
    /\ block_counter' = 0
    /\ emitted' = Append(emitted, Update(129, F64(60)))
    /\ gui_progress_grnd' = F64(60)
    /\ last_emitted_progress' = F64(60)
    /\ IF elevation_enabled
       THEN /\ ground_levels' = [x \in 0..scale_x |-> [z \in 0..scale_z |-> level(ground, x, z)]]
            /\ pc' = "ground_elevation"
       ELSE /\ ground_levels' = ground_levels
            /\ pc' = "ground_flat"
    /\ UNCHANGED <<elements_count, idx, scale_x, scale_z, elevation_enabled,
                   fillground, winter, ground, world, log, args_vars,
                   current_progress_prcs, ground_pb, calls, result>>

\* The search returning the highest occupied cell below the level.
find_max_y_highest(w, x, z, ground_level) ==
    LET hits == {y \in MIN_Y..(ground_level - 1) : block_at(w, x, y, z)}
        found == IF hits = {} THEN ground_level
                 ELSE CHOOSE y \in hits : \A h \in hits : y >= h
    IN  Min(found, ground_level)

\* .find(|y| editor.block_at(x, *y, z)) over MIN_Y..ground_level,
\* .unwrap_or(ground_level).min(ground_level)
find_max_y(w, x, z, ground_level) ==
    LET hits == {y \in MIN_Y..(ground_level - 1) : block_at(w, x, y, z)}
        found == IF hits = {} THEN ground_level
                 ELSE CHOOSE y \in hits : \A h \in hits : y <= h
    IN  Min(found, ground_level)

\* The block_at calls of that search: find is lazy, it asks upwards from
\* MIN_Y and stops at the first occupied cell.
FindQueries(w, x, z, ground_level) ==
    LET last == Min(find_max_y(w, x, z, ground_level), ground_level - 1)
    IN  [i \in 1..(last - MIN_Y + 1) |-> QueryRequest(165, x, MIN_Y + i - 1, z)]

\* The column step with the inner range exclusive of scale_z.
NextColumnExclusive ==
    IF gz + 1 < scale_z THEN <<gx, gz + 1>> ELSE <<gx + 1, 0>>

\* The column after (x, z) in `for x in 0..=sx { for z in 0..=sz {`.
NextColumn ==
    IF gz < scale_z THEN <<gx, gz + 1>> ELSE <<gx + 1, 0>>

\* The column requests with the stone fill ending at max_y - 3.
ElevationRequestsFillBelowDirt(x, z, max_y) ==
    <<SetRequest(170, groundlayer_block, x, max_y, z, NoFilter),
      SetRequest(171, DIRT, x, max_y - 1, z, NoFilter),
      SetRequest(172, DIRT, x, max_y - 2, z, NoFilter)>>
    \o (IF fillground
        THEN <<FillRequest(176, STONE, x, MIN_Y + 1, z, x, max_y - 3, z),
               SetRequest(177, BEDROCK, x, MIN_Y, z, Some({BEDROCK}))>>
        ELSE <<>>)

\* The column requests with the bedrock write carrying no exclusion filter.
ElevationRequestsNoFilter(x, z, max_y) ==
    <<SetRequest(170, groundlayer_block, x, max_y, z, NoFilter),
      SetRequest(171, DIRT, x, max_y - 1, z, NoFilter),
      SetRequest(172, DIRT, x, max_y - 2, z, NoFilter)>>
    \o (IF fillground
        THEN <<FillRequest(176, STONE, x, MIN_Y + 1, z, x, max_y - 2, z),
               SetRequest(177, BEDROCK, x, MIN_Y, z, NoFilter)>>
        ELSE <<>>)

\* The column requests with the fill not guarded by args.fillground.
ElevationRequestsAlwaysFill(x, z, max_y) ==
    <<SetRequest(170, groundlayer_block, x, max_y, z, NoFilter),
      SetRequest(171, DIRT, x, max_y - 1, z, NoFilter),
      SetRequest(172, DIRT, x, max_y - 2, z, NoFilter),
      FillRequest(176, STONE, x, MIN_Y + 1, z, x, max_y - 2, z),
      SetRequest(177, BEDROCK, x, MIN_Y, z, Some({BEDROCK}))>>

\* The editor requests of one column of the elevation sweep.
ElevationRequests(x, z, max_y) ==
    <<SetRequest(170, groundlayer_block, x, max_y, z, NoFilter),
      SetRequest(171, DIRT, x, max_y - 1, z, NoFilter),
      SetRequest(172, DIRT, x, max_y - 2, z, NoFilter)>>
    \o (IF fillground
        THEN <<FillRequest(176, STONE, x, MIN_Y + 1, z, x, max_y - 2, z),
               SetRequest(177, BEDROCK, x, MIN_Y, z, Some({BEDROCK}))>>
        ELSE <<>>)

\* The flat column requests with a floor block under args.fillground.
FlatRequestsWithFloor(x, z, ground_level) ==
    <<SetRequest(203, groundlayer_block, x, ground_level, z, NoFilter),
      SetRequest(204, DIRT, x, ground_level - 1, z, NoFilter)>>
    \o (IF fillground
        THEN <<SetRequest(177, BEDROCK, x, MIN_Y, z, Some({BEDROCK}))>>
        ELSE <<>>)

\* The flat column requests without the dirt block.
FlatRequestsNoDirt(x, z, ground_level) ==
    <<SetRequest(203, groundlayer_block, x, ground_level, z, NoFilter)>>

\* The editor requests of one column of the flat sweep.
FlatRequests(x, z, ground_level) ==
    <<SetRequest(203, groundlayer_block, x, ground_level, z, NoFilter),
      SetRequest(204, DIRT, x, ground_level - 1, z, NoFilter)>>

\* The sink after a request.
apply(w, r) ==
    IF r.op = "block_at" THEN w
    ELSE IF r.op = "set_block"
    THEN set_block(w, r.block, r.x1, r.y1, r.z1, NoFilter, r.blacklist)
    ELSE fill_blocks(w, r.block, r.x1, r.y1, r.z1, r.x2, r.y2, r.z2,
                     NoFilter, r.blacklist)

RECURSIVE apply_all(_, _)
apply_all(w, rs) ==
    IF rs = <<>> THEN w ELSE apply_all(apply(w, Head(rs)), Tail(rs))

\* Lines 180 to 189 and 206 to 215: the counters and the percentage after
\* one column.
ColumnProgress ==
    /\ block_counter' = block_counter + 1
    /\ ground_pb' = ground_pb_inc(block_counter + 1, ground_pb)
    /\ \E progress \in {f64_add(gui_progress_grnd, progress_increment_grnd)} :
           /\ gui_progress_grnd' = progress
           /\ IF exceeds_threshold(progress, last_emitted_progress)
              THEN /\ emitted' = Append(emitted,
                                        Update(IF elevation_enabled THEN 187
                                               ELSE 213, progress))
                   /\ last_emitted_progress' = progress
              ELSE UNCHANGED <<emitted, last_emitted_progress>>

\* One column of the sweep with elevation.
GroundElevationColumn ==
    /\ pc = "ground_elevation"
    /\ gx <= scale_x
    /\ LET ground_level == ground_levels[gx][gz]
           max_y == find_max_y(world, gx, gz, ground_level)
           requests == ElevationRequests(gx, gz, max_y)
       IN  /\ log' = log \o FindQueries(world, gx, gz, ground_level) \o requests
           /\ world' = apply_all(world, requests)
    /\ gx' = NextColumn[1]
    /\ gz' = NextColumn[2]
    /\ ColumnProgress
    /\ UNCHANGED <<pc, elements_count, idx, element, called, scale_x, scale_z,
                   elevation_enabled, fillground, winter, ground,
                   ground_levels, world0, args_vars, current_progress_prcs,
                   calls, result>>

\* The spawn loops with both ranges exclusive of 20.
SpawnRequestsExclusive ==
    [i \in 1..(SPAWN_MAX * SPAWN_MAX) |->
        SetRequest(196, groundlayer_block, (i - 1) \div SPAWN_MAX,
                   SPAWN_Y, (i - 1) % SPAWN_MAX, NoFilter)]

\* for x in 0..=20 { for z in 0..=20 { set_block(groundlayer_block, x, -62, z) } }
SpawnRequests ==
    [i \in 1..((SPAWN_MAX + 1) * (SPAWN_MAX + 1)) |->
        SetRequest(196, groundlayer_block, (i - 1) \div (SPAWN_MAX + 1),
                   SPAWN_Y, (i - 1) % (SPAWN_MAX + 1), NoFilter)]

\* The sink after the spawn requests: set_block without a filter writes the
\* free cells of the platform and leaves the occupied ones.
spawn_blocks(w) ==
    LET cells == {<<x, SPAWN_Y, z>> : x \in 0..SPAWN_MAX, z \in 0..SPAWN_MAX}
    IN  [d \in DOMAIN w \cup cells |->
            IF d \in DOMAIN w THEN w[d] ELSE groundlayer_block]

\* The sweep is over: the spawn platform.
Spawn ==
    /\ pc = "ground_elevation"
    /\ gx > scale_x
    /\ log' = log \o SpawnRequests
    /\ world' = spawn_blocks(world)
    /\ pc' = "save"
    /\ ground_pb' = ground_pb + (block_counter % batch_size)
    /\ UNCHANGED <<elements_count, idx, element, called, scale_x, scale_z,
                   elevation_enabled, fillground, winter, ground,
                   ground_levels, world0, gx, gz, args_vars, gui_vars,
                   block_counter, calls, result>>

\* One column of the sweep without elevation.
GroundFlatColumn ==
    /\ pc = "ground_flat"
    /\ gx <= scale_x
    /\ LET requests == FlatRequests(gx, gz, level(ground, gx, gz))
       IN  /\ log' = log \o requests
           /\ world' = apply_all(world, requests)
    /\ gx' = NextColumn[1]
    /\ gz' = NextColumn[2]
    /\ ColumnProgress
    /\ UNCHANGED <<pc, elements_count, idx, element, called, scale_x, scale_z,
                   elevation_enabled, fillground, winter, ground,
                   ground_levels, world0, args_vars, current_progress_prcs,
                   calls, result>>

FinishFlat ==
    /\ pc = "ground_flat"
    /\ gx > scale_x
    /\ pc' = "save"
    /\ ground_pb' = ground_pb + (block_counter % batch_size)
    /\ UNCHANGED <<elements_count, idx, element, called, scale_x, scale_z,
                   elevation_enabled, fillground, winter, ground,
                   ground_levels, world, world0, gx, gz, log, args_vars,
                   gui_vars, block_counter, calls, result>>

\* The save call entered twice in the history.
save_callTwice(history) ==
    history \o <<[op |-> "editor.save", at |-> Len(log)],
                 [op |-> "editor.save", at |-> Len(log)]>>

\* editor.save();
save_call(history) == Append(history, [op |-> "editor.save", at |-> Len(log)])

\* Lines 236 to 240. The value of save, if it has one, is dropped: a
\* failure it reports is not seen ("fails"), and only a panic inside it
\* ("panics") keeps the function from line 238.
Save ==
    /\ pc = "save"
    /\ pc' = "done"
    /\ calls' = save_call(calls)
    /\ IF persist = "panics"
       THEN /\ result' = "panic"
            /\ emitted' = emitted
       ELSE /\ result' = "Ok"
            /\ emitted' = Append(emitted, Update(238, F64(100)))
    /\ UNCHANGED <<elements_count, idx, element, called, scale_x, scale_z,
                   elevation_enabled, fillground, winter, ground,
                   ground_levels, world, world0, gx, gz, log, args_vars,
                   current_progress_prcs, last_emitted_progress,
                   gui_progress_grnd, bar_vars>>

Next ==
    \/ ProcessElement(TerrainElements)
    \/ FinishElements
    \/ GroundElevationColumn
    \/ Spawn
    \/ GroundFlatColumn
    \/ FinishFlat
    \/ Save

NextClassifier ==
    \/ ProcessElement(ClassifierElements)
    \/ FinishElements
    \/ GroundElevationColumn
    \/ Spawn
    \/ GroundFlatColumn
    \/ FinishFlat
    \/ Save

NextProgress ==
    \/ ProcessElement(ProgressElements)
    \/ FinishElements
    \/ GroundElevationColumn
    \/ Spawn
    \/ GroundFlatColumn
    \/ FinishFlat
    \/ Save

Spec == Init /\ [][Next]_vars

SpecProgress == InitProgress /\ [][NextProgress]_vars

SpecClassifier == InitClassifier /\ [][NextClassifier]_vars

\* ------------------------------------------------- the priority contract
\* A predicate of a priority list: some key of `keys` is present, with the
\* value `value` when one is required; `gen` is the generator it belongs to
\* (None for the bridge placeholder).
Rule(keys, value, gen) == [keys |-> keys, value |-> value, gen |-> gen]

Matches(tags, rule) ==
    \E p \in tags : p[1] \in rule.keys /\ (rule.value = None \/ p[2] = rule.value)

WayPriority ==
    <<Rule({"building", "building:part"}, None, "buildings::generate_buildings"),
      Rule({"highway"}, None, "highways::generate_highways"),
      Rule({"landuse"}, None, "landuse::generate_landuse"),
      Rule({"natural"}, None, "natural::generate_natural"),
      Rule({"amenity"}, None, "amenities::generate_amenities"),
      Rule({"leisure"}, None, "leisure::generate_leisure"),
      Rule({"barrier"}, None, "barriers::generate_barriers"),
      Rule({"waterway"}, None, "waterways::generate_waterways"),
      Rule({"bridge"}, None, None),
      Rule({"railway"}, None, "railways::generate_railways"),
      Rule({"aeroway", "area:aeroway"}, None, "highways::generate_aeroway"),
      Rule({"service"}, "siding", "highways::generate_siding")>>

NodePriority ==
    <<Rule({"door", "entrance"}, None, "doors::generate_doors"),
      Rule({"natural"}, "tree", "natural::generate_natural"),
      Rule({"amenity"}, None, "amenities::generate_amenities"),
      Rule({"barrier"}, None, "barriers::generate_barriers"),
      Rule({"highway"}, None, "highways::generate_highways"),
      Rule({"tourism"}, None, "tourisms::generate_tourisms")>>

RelationPriority ==
    <<Rule({"building", "building:part"}, None,
           "buildings::generate_building_from_relation"),
      Rule({"water"}, None, "water_areas::generate_water_areas"),
      Rule({"leisure"}, "park", "leisure::generate_leisure_from_relation")>>

\* The generators the contract allows for a tag map: that of the first rule
\* of the list that matches, none when no rule matches or the rule has none.
Expected(tags, priority) ==
    LET m == {i \in 1..Len(priority) : Matches(tags, priority[i])}
    IN  IF m = {} THEN <<>>
        ELSE LET first == CHOOSE i \in m : \A j \in m : i <= j
             IN  IF priority[first].gen = None THEN <<>>
                 ELSE <<priority[first].gen>>

\* C1: for a way, at most one generator is invoked, and it is the one of the
\* first matching predicate in the order building-or-building:part > highway >
\* landuse > natural > amenity > leisure > barrier > waterway > bridge >
\* railway > aeroway-or-area:aeroway > service=siding; none when none matches.
C1_WayFirstMatch ==
    element.kind = "way" =>
        /\ Len(called) <= 1
        /\ called = Expected(element.tags, WayPriority)

\* A way tagged building and highway has reached the building generator only.
C1_Witness ==
    /\ element.kind = "way"
    /\ contains_key(element.tags, "building")
    /\ contains_key(element.tags, "highway")
    /\ called = <<"buildings::generate_buildings">>

\* C2: for a node, at most one generator is invoked, the one of the first
\* matching predicate in the order door-or-entrance > natural=tree > amenity >
\* barrier > highway > tourism; a natural tag with another value than tree
\* does not match and the node falls through to the later predicates.
C2_NodeFirstMatch ==
    element.kind = "node" =>
        /\ Len(called) <= 1
        /\ called = Expected(element.tags, NodePriority)
        /\ (get(element.tags, "natural") \notin {None, "tree"}
              => called = Expected(element.tags \ {<<"natural", get(element.tags, "natural")>>},
                                   NodePriority))

\* A node with natural=wood and tourism has fallen through to tourism.
C2_Witness ==
    /\ element.kind = "node"
    /\ get(element.tags, "natural") = "wood"
    /\ contains_key(element.tags, "tourism")
    /\ called = <<"tourisms::generate_tourisms">>

\* C3: for a relation, at most one generator is invoked, the one of the first
\* matching predicate in the order building-or-building:part > water >
\* leisure=park; a relation with a leisure tag other than park and no
\* building or water tag invokes none, and the run goes on.
C3_RelationFirstMatch ==
    element.kind = "relation" =>
        /\ Len(called) <= 1
        /\ called = Expected(element.tags, RelationPriority)
        /\ ((get(element.tags, "leisure") \notin {None, "park"}
              /\ ~contains_key(element.tags, "building")
              /\ ~contains_key(element.tags, "building:part")
              /\ ~contains_key(element.tags, "water"))
            => (called = <<>> /\ pc = "elements" /\ ENABLED NextClassifier))

\* A relation with leisure=pitch alone has been taken and skipped.
C3_Witness ==
    /\ element.kind = "relation"
    /\ element.tags = {<<"leisure", "pitch">>}
    /\ called = <<>>
    /\ idx = 1

\* ------------------------------------------------------ the ground layer
LogIdx == 1..Len(log)

\* The surface writes of the column sweep (not those of the spawn platform).
SurfaceIdx == {i \in LogIdx : log[i].line \in {170, 203}}

AfterSweep == pc \in {"save", "done"}

\* The columns the sweep has taken.
Visited(x, z) ==
    /\ x \in 0..scale_x
    /\ z \in 0..scale_z
    /\ \/ AfterSweep
       \/ /\ pc \in {"ground_elevation", "ground_flat"}
          /\ (x < gx \/ (x = gx /\ z < gz))

VisitedColumns == {c \in (0..scale_x) \X (0..scale_z) : Visited(c[1], c[2])}

\* The surface write of a visited column, and the level it was written at.
SurfaceOf(x, z) == CHOOSE i \in SurfaceIdx : log[i].x1 = x /\ log[i].z1 = z
TopY(x, z) == log[SurfaceOf(x, z)].y1

\* The cells a fill request covers on the y axis.
FillYs(r) == Min(r.y1, r.y2)..Max(r.y1, r.y2)

\* C4: in both modes the sweep takes every column of [0, scale_x] x
\* [0, scale_z] exactly once and no column outside it, and writes for each a
\* surface block and a dirt block directly below it.
C4_EveryColumnOnce ==
    LET surface == SurfaceIdx
    IN  /\ \A x \in 0..(scale_x + 1), z \in 0..(scale_z + 1) :
              Cardinality({i \in surface : log[i].x1 = x /\ log[i].z1 = z})
                 = IF Visited(x, z) THEN 1 ELSE 0
        /\ \A i \in surface :
              /\ log[i].x1 \in 0..scale_x
              /\ log[i].z1 \in 0..scale_z
              /\ log[i].op = "set_block"
              /\ log[i].block = groundlayer_block
              /\ i < Len(log)
              /\ log[i + 1] = SetRequest(log[i + 1].line, DIRT, log[i].x1,
                                         log[i].y1 - 1, log[i].z1, NoFilter)
        /\ AfterSweep => Cardinality(surface) = (scale_x + 1) * (scale_z + 1)

\* A two by two grid has been swept: four surface writes.
C4_Witness ==
    /\ AfterSweep
    /\ scale_x = 1
    /\ scale_z = 1
    /\ Cardinality(SurfaceIdx) = 4

\* The occupied cells of a column below a level, when the element loop ended.
OccupiedBelow(x, z, target) ==
    {y \in MIN_Y..(target - 1) : <<x, y, z>> \in DOMAIN world0}

\* C5: with elevation, the surface level of every column is the lowest y in
\* [MIN_Y, target) the sink already held a block at, and the target when
\* there is none; it never exceeds the target, blocks at or above the target
\* do not count, and the surface is written there with dirt at the two
\* levels below.
C5_TopYIsLowestOccupied ==
    \A i \in LogIdx :
        log[i].line = 170 =>
            LET x == log[i].x1
                z == log[i].z1
                target == ground_levels[x][z]
                occ == OccupiedBelow(x, z, target)
                top == log[i].y1
            IN  /\ occ = {} => top = target
                /\ occ # {} => top \in occ /\ \A y \in occ : top <= y
                /\ top <= target
                /\ log[i] = SetRequest(170, groundlayer_block, x, top, z, NoFilter)
                /\ i + 2 <= Len(log)
                /\ log[i + 1] = SetRequest(171, DIRT, x, top - 1, z, NoFilter)
                /\ log[i + 2] = SetRequest(172, DIRT, x, top - 2, z, NoFilter)

\* A column with two blocks below its target and one at no lower level:
\* the surface went to the lower one.
C5_Witness ==
    \E i \in LogIdx :
        /\ log[i].line = 170
        /\ Cardinality(OccupiedBelow(log[i].x1, log[i].z1,
                                    ground_levels[log[i].x1][log[i].z1])) = 2
        /\ log[i].y1 = MIN_Y + 1
        /\ <<log[i].x1, MIN_Y + 2, log[i].z1>> \in DOMAIN world0
        /\ ground_levels[log[i].x1][log[i].z1] = MIN_Y + MaxRise

\* C6 as stated: the stone fill request covers the cells MIN_Y+1 to topY-3,
\* so it includes neither filler cell nor the surface cell.
C6_StoneToTopMinus3 ==
    \A i \in LogIdx :
        log[i].op = "fill_blocks" =>
            LET top == TopY(log[i].x1, log[i].z1)
            IN  /\ log[i].y1 = MIN_Y + 1
                /\ log[i].y2 = top - 3

\* C6 amended: with elevation and fill, the stone fill request of every
\* column is issued with the vertical bounds MIN_Y+1 and topY-2; when topY >=
\* MIN_Y+3 the requested range includes the lower filler cell topY-2 and
\* includes neither topY-1 nor topY.
C6_StoneToTopMinus2 ==
    /\ \A i \in LogIdx :
          log[i].op = "fill_blocks" =>
              LET top == TopY(log[i].x1, log[i].z1)
              IN  /\ log[i] = FillRequest(176, STONE, log[i].x1, MIN_Y + 1,
                                          log[i].z1, log[i].x1, top - 2, log[i].z1)
                  /\ top >= MIN_Y + 3 =>
                        /\ top - 2 \in FillYs(log[i])
                        /\ top - 1 \notin FillYs(log[i])
                        /\ top \notin FillYs(log[i])
    /\ (elevation_enabled /\ fillground) =>
          \A c \in VisitedColumns :
              \E i \in LogIdx : /\ log[i].op = "fill_blocks"
                                /\ log[i].x1 = c[1]
                                /\ log[i].z1 = c[2]

\* A stone fill was requested for a column whose surface is three or more
\* above the floor.
C6_Witness ==
    \E i \in LogIdx :
        /\ log[i].op = "fill_blocks"
        /\ TopY(log[i].x1, log[i].z1) >= MIN_Y + 3

FloorCells0 == {c \in DOMAIN world0 : c[2] = MIN_Y}

\* C7 as stated: with fill, a block that was at floor level before the ground
\* layer is the same block afterwards.
C7_FloorBlockUnchanged ==
    fillground => \A c \in FloorCells0 : world[c] = world0[c]

\* C7 amended: with fill, the floor write is a bedrock write at MIN_Y under
\* the exclusion filter [BEDROCK]: a bedrock block that was at floor level is
\* never overwritten, a floor block of another kind is replaced, so the floor
\* cell of every column taken with elevation holds bedrock.
C7_FloorBedrockKept ==
    fillground =>
        /\ \A c \in FloorCells0 : world0[c] = BEDROCK => world[c] = BEDROCK
        /\ \A i \in LogIdx :
              log[i].line = 177 =>
                  log[i] = SetRequest(177, BEDROCK, log[i].x1, MIN_Y, log[i].z1,
                                      Some({BEDROCK}))
        /\ elevation_enabled =>
              \A c \in VisitedColumns :
                  /\ <<c[1], MIN_Y, c[2]>> \in DOMAIN world
                  /\ world[<<c[1], MIN_Y, c[2]>>] = BEDROCK
                  /\ \E i \in LogIdx : /\ log[i].line = 177
                                       /\ log[i].x1 = c[1]
                                       /\ log[i].z1 = c[2]

\* The column (0, 0) held bedrock on the floor and has been taken with fill.
C7_Witness ==
    /\ fillground
    /\ elevation_enabled
    /\ Visited(0, 0)
    /\ <<0, MIN_Y, 0>> \in DOMAIN world0
    /\ world0[<<0, MIN_Y, 0>>] = BEDROCK
    /\ world[<<0, MIN_Y, 0>>] = BEDROCK

\* C8: without fill, in both modes, no stone fill and no bedrock write is
\* issued for any column.
C8_NoFillNoFloor ==
    ~fillground =>
        \A i \in LogIdx :
            /\ log[i].op # "fill_blocks"
            /\ log[i].block \notin {STONE, BEDROCK}
            /\ log[i].line \notin {176, 177}

\* A run without fill has swept a grid with elevation.
C8_Witness ==
    /\ ~fillground
    /\ elevation_enabled
    /\ pc = "done"
    /\ Cardinality(SurfaceIdx) = (scale_x + 1) * (scale_z + 1)
    /\ scale_x = 1

SpawnIdx == {i \in LogIdx : log[i].line = 196}

\* C9: with elevation, after the sweep and before the save, a surface-block
\* write at y = -62 is issued for exactly the 441 columns of [0, 20] x [0, 20]
\* and no other, whatever the levels, the blocks and the grid extents.
C9_SpawnPlatform ==
    LET spawn == SpawnIdx
    IN  /\ ~(elevation_enabled /\ AfterSweep) => spawn = {}
        /\ (elevation_enabled /\ AfterSweep) =>
              /\ Cardinality(spawn) = 441
              /\ spawn = (Len(log) - 440)..Len(log)
              /\ {<<log[i].x1, log[i].z1>> : i \in spawn} = (0..20) \X (0..20)
              /\ \A i \in spawn :
                    log[i] = SetRequest(196, groundlayer_block, log[i].x1, -62,
                                        log[i].z1, NoFilter)

\* The platform has been written over a one-column grid.
C9_Witness ==
    /\ elevation_enabled
    /\ pc = "save"
    /\ scale_x = 0
    /\ scale_z = 0
    /\ Cardinality(SpawnIdx) = 441

\* C10: without elevation, the only requests of the ground layer are, per
\* column, the surface block at the oracle's level and one dirt block below
\* it: no block_at query (the blocks in the sink do not move the surface), no
\* stone or bedrock even with fill, no spawn write.
C10_FlatOnlySurfaceAndDirt ==
    ~elevation_enabled =>
        /\ Len(log) = 2 * Cardinality(VisitedColumns)
        /\ \A i \in LogIdx :
              /\ log[i].op = "set_block"
              /\ i % 2 = 1 =>
                    log[i] = SetRequest(203, groundlayer_block, log[i].x1,
                                        level(ground, log[i].x1, log[i].z1),
                                        log[i].z1, NoFilter)
              /\ i % 2 = 0 =>
                    log[i] = SetRequest(204, DIRT, log[i - 1].x1,
                                        log[i - 1].y1 - 1, log[i - 1].z1, NoFilter)

\* A flat run with fill on has written the surface of column (0, 0) at the
\* oracle's level although the sink held a block below it.
C10_Witness ==
    /\ ~elevation_enabled
    /\ fillground
    /\ pc = "done"
    /\ OccupiedBelow(0, 0, level(ground, 0, 0)) # {}
    /\ log[1].y1 = level(ground, 0, 0)

\* --------------------------------------------------- progress and persist
EmittedIdx == 1..Len(emitted)

\* The updates made inside the element loop and inside the column sweep.
ElementUpdates == {i \in EmittedIdx : emitted[i].line = 47}
TerrainUpdates == {i \in EmittedIdx : emitted[i].line \in {187, 213}}

Emitted100 == {i \in EmittedIdx : emitted[i].progress = F64(100)}

GeneratorCalls == {i \in DOMAIN calls : calls[i].op # "editor.save"}
SaveCalls == {i \in DOMAIN calls : calls[i].op = "editor.save"}

\* C11: the percentages emitted over a run never decrease, and the last one
\* of a run that ends with Ok is 100.
C11_NonDecreasing ==
    /\ \A i \in EmittedIdx :
          i > 1 => f64_le(emitted[i - 1].progress, emitted[i].progress)
    /\ (pc = "done" /\ result = "Ok") =>
          emitted[Len(emitted)].progress = F64(100)

\* C12: save is called exactly once per run, after every element has been
\* classified and after the last request of the ground layer (the spawn
\* platform included); no generator call and no editor request follows it.
C12_PersistOnceAtEnd ==
    LET saves == SaveCalls
    IN  /\ pc # "done" => saves = {}
        /\ pc = "done" =>
              /\ saves = {Len(calls)}
              /\ calls[Len(calls)].at = Len(log)
              /\ idx = elements_count
              /\ gx > scale_x
              /\ Len(log) > 0
              /\ log[Len(log)].line = IF elevation_enabled THEN 196 ELSE 204

\* A run with elevation has ended: a generator was called, the spawn
\* platform was requested and save was called after both.
C12_Witness ==
    /\ pc = "done"
    /\ elevation_enabled
    /\ GeneratorCalls # {}
    /\ SaveCalls = {Len(calls)}
    /\ calls[Len(calls)].at = Len(log)

\* C13: when save fails, generate_world ends with an error and 100 is not
\* emitted; 100 is emitted only after a save that succeeded.
C13_PersistFailureReported ==
    /\ (pc = "done" /\ persist # "ok") =>
          (result = "Err" /\ Emitted100 = {})
    /\ Emitted100 # {} => persist = "ok"

\* C14: the amounts passed to the ground bar (batch_size at every multiple
\* of batch_size, then the remainder) add up to the number of columns taken
\* so far less the pending remainder, and to the number of columns of the
\* grid once the sweep is over, for every update count.
C14_BarCountsColumns ==
    /\ batch_size >= 1
    /\ pc \in {"ground_elevation", "ground_flat"} =>
          /\ block_counter = Cardinality(VisitedColumns)
          /\ ground_pb = block_counter - (block_counter % batch_size)
    /\ pc \in {"save", "done"} =>
          /\ block_counter = total_blocks
          /\ ground_pb = total_blocks

\* A run has ended whose batches hold several columns and whose last batch
\* was not full.
C14_Witness ==
    /\ pc = "done"
    /\ batch_size >= 2
    /\ block_counter % batch_size # 0
    /\ block_counter >= 2 * batch_size
    /\ ground_pb = total_blocks

\* C15: a run without elements calls no generator and emits no percentage
\* from the element loop; the ground layer still takes every column (two
\* requests per column without elevation), save is called, and 100 is
\* emitted last unless save panics.
C15_NoElements ==
    elements_count = 0 =>
        /\ GeneratorCalls = {}
        /\ ElementUpdates = {}
        /\ pc = "done" =>
              /\ {<<log[i].x1, log[i].z1>> : i \in SurfaceIdx}
                     = (0..scale_x) \X (0..scale_z)
              /\ ~elevation_enabled => Len(log) = 2 * total_blocks
              /\ Cardinality(SaveCalls) = 1
              /\ persist # "panics" =>
                    emitted[Len(emitted)].progress = F64(100)

\* The run without elements on the flat 3 x 3 grid has ended: 9 columns, 18
\* requests, save called, 100 emitted.
C15_Witness ==
    /\ elements_count = 0
    /\ scale_x = 2
    /\ scale_z = 2
    /\ ~elevation_enabled
    /\ pc = "done"
    /\ Cardinality(SurfaceIdx) = 9
    /\ Len(log) = 18
    /\ SaveCalls # {}
    /\ emitted[Len(emitted)].progress = F64(100)

\* C16: every generator is called before the first request of the ground
\* layer (block_at query or write), and the ground layer starts only when
\* every element has been classified.
C16_GeneratorsBeforeTerrain ==
    /\ \A i \in GeneratorCalls : calls[i].at = 0
    /\ pc # "elements" => idx = elements_count
    /\ Len(log) > 0 => pc # "elements"

\* The ground layer with elevation has issued requests after a generator
\* was called on the empty request log.
C16_Witness ==
    /\ elevation_enabled
    /\ Len(log) > 0
    /\ \E i \in GeneratorCalls : calls[i].at = 0
    /\ \E i \in LogIdx : log[i].op = "block_at"

\* C17: a percentage is emitted inside a phase only when the accumulated
\* value is more than 0.25 above the last emitted one (the phase start for
\* the first), so consecutive values differ by more than 0.25, a value not
\* emitted is at most 0.25 above the last emitted one, and a phase emits
\* fewer than 196 (elements) and fewer than 120 (ground) of them.
C17_Throttled ==
    LET inphase == ElementUpdates \cup TerrainUpdates
    IN  /\ \A i \in inphase :
              /\ i > 1
              /\ emitted[i - 1].line \in
                    (IF emitted[i].line = 47 THEN {29, 47} ELSE {129, 187, 213})
              /\ f64_lt(emitted[i - 1].progress, emitted[i].progress)
              /\ f64_lt(QUARTER, ExactSub(emitted[i].progress,
                                          emitted[i - 1].progress))
        /\ Cardinality(ElementUpdates) < 196
        /\ Cardinality(TerrainUpdates) < 120
        /\ pc = "elements" =>
              /\ f64_le(last_emitted_progress, current_progress_prcs)
              /\ f64_le(ExactSub(current_progress_prcs, last_emitted_progress),
                        QUARTER)
        /\ pc \in {"ground_elevation", "ground_flat"} =>
              /\ f64_le(last_emitted_progress, gui_progress_grnd)
              /\ f64_le(ExactSub(gui_progress_grnd, last_emitted_progress),
                        QUARTER)

\* A list of more than 196 elements has been classified and some of its
\* elements, not all, led to an emission.
C17_Witness ==
    /\ elements_count > 196
    /\ idx = elements_count
    /\ ElementUpdates # {}
    /\ Cardinality(ElementUpdates) < elements_count

\* C18: the percentages emitted from the element loop lie in (11, 60], those
\* of the column sweep in (60, 90], every percentage in [0, 100], and the
\* value accumulated over a non-empty element list is 60 when the loop ends.
C18_PhaseRanges ==
    /\ \A i \in EmittedIdx :
          /\ f64_le(F64(0), emitted[i].progress)
          /\ f64_le(emitted[i].progress, F64(100))
          /\ emitted[i].line = 47 =>
                /\ f64_lt(F64(11), emitted[i].progress)
                /\ f64_le(emitted[i].progress, F64(60))
          /\ emitted[i].line \in {187, 213} =>
                /\ f64_lt(F64(60), emitted[i].progress)
                /\ f64_le(emitted[i].progress, F64(90))
    /\ (pc # "elements" /\ elements_count >= 1) =>
          current_progress_prcs = F64(60)

\* Keys of the way chain that are tested before bridge.
AboveBridge ==
    {"building", "building:part", "highway", "landuse", "natural", "amenity",
     "leisure", "barrier", "waterway"}

\* C19: a way carrying the bridge key and none of the keys tested before it
\* invokes no generator, whatever railway, aeroway, area:aeroway or service
\* tags it also carries.
C19_BridgeShadows ==
    (/\ element.kind = "way"
     /\ contains_key(element.tags, "bridge")
     /\ \A k \in AboveBridge : ~contains_key(element.tags, k))
    => called = <<>>

\* A way tagged bridge and one of railway, aeroway, area:aeroway or
\* service=siding has been classified and no generator was invoked.
C19_Witness ==
    /\ element.kind = "way"
    /\ contains_key(element.tags, "bridge")
    /\ \/ contains_key(element.tags, "railway")
       \/ contains_key(element.tags, "aeroway")
       \/ contains_key(element.tags, "area:aeroway")
       \/ get(element.tags, "service") = "siding"
    /\ called = <<>>

\* C20: with elevation, no request of the ground layer addresses a cell
\* below MIN_Y, and the stone fill is requested with its lower corner MIN_Y + 1
\* at or below its upper corner.
C20_WritesWithinWorld ==
    elevation_enabled =>
        \A i \in LogIdx :
            /\ log[i].op \in {"set_block", "fill_blocks"} =>
                  (log[i].y1 >= MIN_Y /\ log[i].y2 >= MIN_Y)
            /\ log[i].op = "fill_blocks" =>
                  (log[i].y1 = MIN_Y + 1 /\ log[i].y1 <= log[i].y2)

====
